---- MODULE Spec2Model ----
(***************************************************************************)
(* A model of src/scripts/extract_codes.py: extract_org_structure (the     *)
(* two passes over the spans of a PDF, the clustering of x-positions, the  *)
(* level thresholds, the labeling and the final sort) followed by          *)
(* print_hierarchy, as the __main__ block runs them.                       *)
(*                                                                         *)
(* A document is the flat sequence of its spans in traversal order (page,  *)
(* block, line, span); a span is [text, x, page].  A text is a tuple of    *)
(* one-character strings.  Coordinates are whole points; a median of an    *)
(* even-sized cluster can fall on a half point, so medians and threshold   *)
(* endpoints are kept in half points (twice their value) and a coordinate  *)
(* is doubled where it is compared with them.  The dictionary              *)
(* code_positions of the first pass is written and never read, and is left *)
(* out, as are the opening and closing of the file.                        *)
(***************************************************************************)
EXTENDS Integers, Sequences, FiniteSets

(***************************************************************************)
(* Bounds of the model.                                                    *)
(***************************************************************************)
MaxSpans == 3

MaxPages == 2

MaxCoords == 5
MaxDocs == 3
MaxBlocks == 2
MaxPdfPages == 2
MaxSections == 3
MaxBody == 2

(***************************************************************************)
(* Constants of the program.                                               *)
(***************************************************************************)
GapThreshold == 15

HalfWidth == 10

level_labels == <<"A", "1", "2", "3">>

None == <<>>

(***************************************************************************)
(* Characters, str.strip() and the re.match of the coded-line pattern:     *)
(* four digits, one or more whitespace characters, then the rest.          *)
(***************************************************************************)
Digits == <<"0", "1", "2", "3", "4", "5", "6", "7", "8", "9">>

IsDigit(c) == \E k \in 1..Len(Digits) : Digits[k] = c

IsSpace(c) == c \in {" ", "\t", "\n"}

RECURSIVE LStrip(_)
LStrip(s) == IF s = <<>> \/ ~IsSpace(Head(s)) THEN s ELSE LStrip(Tail(s))

RECURSIVE RStrip(_)
RStrip(s) ==
  IF s = <<>> \/ ~IsSpace(s[Len(s)]) THEN s ELSE RStrip(SubSeq(s, 1, Len(s) - 1))

\* mutant: the text is matched as it is, not stripped
StripNot(s) == s

\* str.strip()
Strip(s) == RStrip(LStrip(s))

\* What '.*' consumes: everything up to the first newline.
RECURSIVE DotStar(_)
DotStar(s) ==
  IF s = <<>> \/ Head(s) = "\n" THEN <<>> ELSE <<Head(s)>> \o DotStar(Tail(s))

NoMatch == [ok |-> FALSE, code |-> <<>>, description |-> <<>>]

\* mutant: the pattern without the whitespace after the four digits
ReMatchNoSpace(t) ==
  IF Len(t) >= 4 /\ \A k \in 1..4 : IsDigit(t[k])
  THEN [ok |-> TRUE, code |-> SubSeq(t, 1, 4),
        description |-> DotStar(LStrip(SubSeq(t, 5, Len(t))))]
  ELSE NoMatch

\* re.match of the pattern on t: groups 1 and 2, or no match.
ReMatch(t) ==
  IF Len(t) >= 5 /\ (\A k \in 1..4 : IsDigit(t[k])) /\ IsSpace(t[5])
  THEN [ok |-> TRUE, code |-> SubSeq(t, 1, 4),
        description |-> DotStar(LStrip(SubSeq(t, 5, Len(t))))]
  ELSE NoMatch

\* text = span["text"].strip(); match = re.match(..., text)
MatchSpan(span) == ReMatch(Strip(span.text))

(***************************************************************************)
(* list.sort() on numbers: a stable ascending sort.                        *)
(***************************************************************************)
RECURSIVE InsertNum(_, _)
InsertNum(s, v) ==
  IF s = <<>> THEN <<v>>
  ELSE IF s[Len(s)] <= v THEN Append(s, v)
  ELSE Append(InsertNum(SubSeq(s, 1, Len(s) - 1), v), s[Len(s)])

RECURSIVE SortNumsFrom(_, _)
SortNumsFrom(acc, s) ==
  IF s = <<>> THEN acc ELSE SortNumsFrom(InsertNum(acc, Head(s)), Tail(s))

SortNums(s) == SortNumsFrom(<<>>, s)

(***************************************************************************)
(* Clustering of the sorted x-positions (lines 46-57).                     *)
(***************************************************************************)
\* mutant: a gap of exactly the threshold also starts a new cluster
GapExceededAtThreshold(prev, cur) == cur - prev >= GapThreshold

\* x_positions[i] - x_positions[i-1] > 15
GapExceeded(prev, cur) == cur - prev > GapThreshold

\* The for loop of lines 50-55 from index i on, then the append of line 57.
RECURSIVE ClusterLoop(_, _, _, _)
ClusterLoop(xs, i, clusters, cur) ==
  IF i > Len(xs) THEN Append(clusters, cur)
  ELSE IF GapExceeded(xs[i - 1], xs[i])
       THEN ClusterLoop(xs, i + 1, Append(clusters, cur), <<xs[i]>>)
       ELSE ClusterLoop(xs, i + 1, clusters, Append(cur, xs[i]))

\* position_clusters for a sorted, non-empty x_positions.
ClustersOf(xs) == ClusterLoop(xs, 2, <<>>, <<xs[1]>>)

(***************************************************************************)
(* statistics.median, in half points, and the thresholds (lines 60-69).    *)
(***************************************************************************)
\* mutant: the lower of the two middle elements of an even-sized cluster
Median2Low(c) ==
  LET s == SortNums(c)
      n == Len(s)
  IN  IF n % 2 = 1 THEN 2 * s[(n \div 2) + 1] ELSE 2 * s[n \div 2]

\* Twice statistics.median(c): the middle element, or the mean of the two
\* middle elements.
Median2(c) ==
  LET s == SortNums(c)
      n == Len(s)
  IN  IF n % 2 = 1 THEN 2 * s[(n \div 2) + 1] ELSE s[n \div 2] + s[(n \div 2) + 1]

\* [statistics.median(cluster) for cluster in position_clusters], sorted.
MediansOf(clusters) == SortNums([k \in 1..Len(clusters) |-> Median2(clusters[k])])

MinNat(a, b) == IF a <= b THEN a ELSE b

\* mutant: every cluster gets an entry, labels reused in rotation
ThresholdsUncapped(medians) ==
  [k \in 1..Len(medians) |->
     [lvl |-> level_labels[((k - 1) % Len(level_labels)) + 1],
      min_pos |-> medians[k] - 2 * HalfWidth,
      max_pos |-> medians[k] + 2 * HalfWidth]]

\* The dict built by lines 64-69, as the sequence of its entries in
\* insertion order (the order in which Python iterates it).
ThresholdsOf(medians) ==
  [k \in 1..MinNat(Len(medians), Len(level_labels)) |->
     [lvl |-> level_labels[k],
      min_pos |-> medians[k] - 2 * HalfWidth,
      max_pos |-> medians[k] + 2 * HalfWidth]]

(***************************************************************************)
(* The level of a span at x (lines 89-101).                                *)
(***************************************************************************)
Abs(n) == IF n < 0 THEN 0 - n ELSE n

\* mutant: the loop without its break: the last containing interval wins
RECURSIVE ScanNoBreak(_, _, _)
ScanNoBreak(th, x2, k) ==
  IF k > Len(th) THEN "Unknown"
  ELSE LET later == ScanNoBreak(th, x2, k + 1)
       IN  IF later # "Unknown" THEN later
           ELSE IF th[k].min_pos <= x2 /\ x2 <= th[k].max_pos THEN th[k].lvl
           ELSE "Unknown"

\* The for loop of lines 91-94 from entry k on: the first containing interval.
RECURSIVE ScanThresholds(_, _, _)
ScanThresholds(th, x2, k) ==
  IF k > Len(th) THEN "Unknown"
  ELSE IF th[k].min_pos <= x2 /\ x2 <= th[k].max_pos THEN th[k].lvl
  ELSE ScanThresholds(th, x2, k + 1)

\* mutant: the distance to the lower endpoint only
EndpointDistLower(t, x2) == Abs(x2 - t.min_pos)

\* min(abs(x_pos - lo), abs(x_pos - hi)), in half points
EndpointDist(t, x2) == MinNat(Abs(x2 - t.min_pos), Abs(x2 - t.max_pos))

\* min(keys, key=...) over entries k.. with the best entry so far: the first
\* entry of least distance.
\* mutant: the comparison reversed: the first entry of greatest distance
RECURSIVE ClosestFromFarthest(_, _, _, _)
ClosestFromFarthest(th, x2, k, best) ==
  IF k > Len(th) THEN th[best].lvl
  ELSE IF EndpointDist(th[k], x2) > EndpointDist(th[best], x2)
       THEN ClosestFromFarthest(th, x2, k + 1, k)
       ELSE ClosestFromFarthest(th, x2, k + 1, best)

RECURSIVE ClosestFrom(_, _, _, _)
ClosestFrom(th, x2, k, best) ==
  IF k > Len(th) THEN th[best].lvl
  ELSE IF EndpointDist(th[k], x2) < EndpointDist(th[best], x2)
       THEN ClosestFrom(th, x2, k + 1, k)
       ELSE ClosestFrom(th, x2, k + 1, best)

\* mutant: no fallback, the level stays as initialised
LevelOfNoFallback(th, x) == ScanThresholds(th, 2 * x, 1)

\* Lines 90-101; min() of an empty sequence raises ValueError.
LevelOf(th, x) ==
  LET level == ScanThresholds(th, 2 * x, 1)
  IN  IF level # "Unknown" THEN level
      ELSE IF th = <<>> THEN "ValueError"
      ELSE ClosestFrom(th, 2 * x, 2, 1)

(***************************************************************************)
(* structured_data.sort(key=lambda x: (x["page"], x["code"])) (line 115).  *)
(***************************************************************************)
CharOrd(c) == CHOOSE k \in 1..Len(Digits) : Digits[k] = c

\* a < b for strings of digits
RECURSIVE StrLess(_, _)
StrLess(a, b) ==
  IF b = <<>> THEN FALSE
  ELSE IF a = <<>> THEN TRUE
  ELSE IF Head(a) = Head(b) THEN StrLess(Tail(a), Tail(b))
  ELSE CharOrd(Head(a)) < CharOrd(Head(b))

\* mutant: the key is the code alone
KeyLessCodeOnly(r, s) == StrLess(r.code, s.code)

\* (r.page, r.code) < (s.page, s.code)
KeyLess(r, s) == r.page < s.page \/ (r.page = s.page /\ StrLess(r.code, s.code))

RECURSIVE InsertRec(_, _)
InsertRec(s, v) ==
  IF s = <<>> THEN <<v>>
  ELSE IF ~KeyLess(v, s[Len(s)]) THEN Append(s, v)
  ELSE Append(InsertRec(SubSeq(s, 1, Len(s) - 1), v), s[Len(s)])

RECURSIVE SortRecsFrom(_, _)
SortRecsFrom(acc, s) ==
  IF s = <<>> THEN acc ELSE SortRecsFrom(InsertRec(acc, Head(s)), Tail(s))

SortRecs(s) == SortRecsFrom(<<>>, s)

(***************************************************************************)
(* The documents of the model.                                             *)
(***************************************************************************)
T0100 == <<"0", "1", "0", "0", " ", "D", "e", "p", "t", " ", "A">>

T1001 == <<"1", "0", "0", "1", " ", "U", "n", "i", "t", " ", "A", "1">>

T0200 == <<" ", "0", "2", "0", "0", "\t", "D", "e", "p", "t", " ", "B", " ">>

T0200nl == <<"0", "2", "0", "0", " ", " ", "D", "i", "v", "\n", "X">>

TFiveDigits == <<"0", "1", "0", "0", "1", " ", "U", "n", "i", "t">>

TCodeOnly == <<" ", "0", "1", "0", "0", " ">>

\* The spans a document of Spec is made of: a text at an x-coordinate.
SampleSpans ==
  { [text |-> T0100, x |-> 40], [text |-> T1001, x |-> 130],
    [text |-> T0200, x |-> 42], [text |-> T0100, x |-> 170],
    [text |-> T0200nl, x |-> 145], [text |-> TFiveDigits, x |-> 90],
    [text |-> TCodeOnly, x |-> 200] }

\* The x-coordinates of the documents of SpecWide.
WideXs == {0, 15, 30, 46, 62, 78, 94}

\* A document lists its spans page by page.
PagesAscend(d) == \A k \in 1..(Len(d) - 1) : d[k].page <= d[k + 1].page

SeqsUpTo(S, n) == UNION {[1..m -> S] : m \in 0..n}

Docs ==
  { d \in SeqsUpTo({[text |-> s.text, x |-> s.x, page |-> p] :
                      s \in SampleSpans, p \in 1..MaxPages}, MaxSpans) :
      PagesAscend(d) }

\* d read from its span r + 1 on, and round to its span r.
Rotated(d, r) == [k \in 1..Len(d) |-> d[((k - 1 + r) % Len(d)) + 1]]

Monotone(d) ==
  \/ \A k \in 1..(Len(d) - 1) : d[k].x <= d[k + 1].x
  \/ \A k \in 1..(Len(d) - 1) : d[k].x >= d[k + 1].x

\* The documents of SpecWide: one page of coded spans whose x-coordinates
\* come in ascending or descending order, or in a rotation of either (every
\* order of up to three spans is one).
WideDocs ==
  { d \in SeqsUpTo({[text |-> T0100, x |-> x, page |-> 1] : x \in WideXs},
                   MaxCoords) :
      \E r \in 0..Len(d) : Monotone(Rotated(d, r)) }

\* The elements of a set of numbers in ascending order.
RECURSIVE Ascending(_)
Ascending(S) ==
  IF S = {} THEN <<>>
  ELSE LET m == CHOOSE v \in S : \A w \in S : v <= w
       IN  <<m>> \o Ascending(S \ {m})

\* The threshold mappings of the labeling pass taken alone: those the
\* x-coordinates of some document give, and the empty mapping.
LabelThresholds ==
  { IF S = {} THEN <<>> ELSE ThresholdsOf(MediansOf(ClustersOf(Ascending(S)))) :
      S \in SUBSET WideXs }

\* The x-coordinates of the span labeled in SpecLabel.
ProbeXs == (0 - 2 * GapThreshold)..(94 + 2 * GapThreshold)

(***************************************************************************)
(* The state: the document, the locals of extract_org_structure and of     *)
(* print_hierarchy, and the position in the program.                       *)
(***************************************************************************)
VARIABLES doc, pc, idx, x_positions, position_clusters, cluster_medians,
          level_thresholds, structured_data, org_data, no_data_message,
          current_agency, current_dept, current_subdept, printed,
          tpc, filtered_pdfs, file_idx, success_count, verified_count,
          failed_files, calls, pdf_pages, text_lines, text_file, page_num,
          file_page

vars == <<doc, pc, idx, x_positions, position_clusters, cluster_medians,
          level_thresholds, structured_data, org_data, no_data_message,
          current_agency, current_dept, current_subdept, printed,
          tpc, filtered_pdfs, file_idx, success_count, verified_count,
          failed_files, calls, pdf_pages, text_lines, text_file, page_num,
          file_page>>

extract_vars == <<x_positions, position_clusters, cluster_medians,
                  level_thresholds, structured_data, org_data, no_data_message>>

print_vars == <<current_agency, current_dept, current_subdept, printed>>

\* extract_pdf_text.py: the batch loop of main, the document handed to
\* extract_text_with_layout and its result, the text file and page index
\* handed to extract_text_file_page and its result.
batch_vars == <<filtered_pdfs, file_idx, success_count, verified_count,
                failed_files, calls>>

layout_vars == <<pdf_pages, text_lines>>

file_page_vars == <<text_file, page_num, file_page>>

pdf_text_vars == <<tpc, batch_vars, layout_vars, file_page_vars>>

\* Nothing of extract_pdf_text.py has run.
BatchIdle ==
  /\ filtered_pdfs = <<>>
  /\ file_idx = 1
  /\ success_count = 0
  /\ verified_count = 0
  /\ failed_files = <<>>
  /\ calls = <<>>

LayoutIdle ==
  /\ pdf_pages = <<>>
  /\ text_lines = [ok |-> TRUE, lines |-> <<>>]

FilePageIdle ==
  /\ text_file = <<>>
  /\ page_num = 0
  /\ file_page = <<>>

PdfTextIdle ==
  /\ tpc = "idle"
  /\ BatchIdle
  /\ LayoutIdle
  /\ FilePageIdle

InitFor(D) ==
  /\ doc \in D
  /\ pc = "pass1"
  /\ idx = 1
  /\ x_positions = <<>>
  /\ position_clusters = <<>>
  /\ cluster_medians = <<>>
  /\ level_thresholds = <<>>
  /\ structured_data = <<>>
  /\ org_data = <<>>
  /\ no_data_message = FALSE
  /\ current_agency = None
  /\ current_dept = None
  /\ current_subdept = None
  /\ printed = 0
  /\ PdfTextIdle

Init == InitFor(Docs)

InitWide == InitFor(WideDocs)

\* The second pass taken alone: one coded span at any x, labeled against a
\* threshold mapping.
InitLabel ==
  /\ doc \in {<<[text |-> T0100, x |-> x, page |-> 1]>> : x \in ProbeXs}
  /\ pc = "pass2"
  /\ idx = 1
  /\ x_positions = <<>>
  /\ position_clusters = <<>>
  /\ cluster_medians = <<>>
  /\ level_thresholds \in LabelThresholds
  /\ structured_data = <<>>
  /\ org_data = <<>>
  /\ no_data_message = FALSE
  /\ current_agency = None
  /\ current_dept = None
  /\ current_subdept = None
  /\ printed = 0
  /\ PdfTextIdle

\* Nothing of extract_codes.py has run.
CodesIdle ==
  /\ doc = <<>>
  /\ pc = "idle"
  /\ idx = 1
  /\ x_positions = <<>>
  /\ position_clusters = <<>>
  /\ cluster_medians = <<>>
  /\ level_thresholds = <<>>
  /\ structured_data = <<>>
  /\ org_data = <<>>
  /\ no_data_message = FALSE
  /\ current_agency = None
  /\ current_dept = None
  /\ current_subdept = None
  /\ printed = 0

codes_vars == <<doc, pc, idx, extract_vars, print_vars>>

(***************************************************************************)
(* extract_org_structure.                                                  *)
(***************************************************************************)
\* First pass, one span (lines 30-37).
Pass1Step ==
  /\ pc = "pass1"
  /\ idx <= Len(doc)
  /\ x_positions' = IF MatchSpan(doc[idx]).ok
                    THEN Append(x_positions, doc[idx].x)
                    ELSE x_positions
  /\ idx' = idx + 1
  /\ UNCHANGED pdf_text_vars
  /\ UNCHANGED <<doc, pc, position_clusters, cluster_medians, level_thresholds,
                 structured_data, org_data, no_data_message, print_vars>>

\* No x-position collected: the message and return [] (lines 40-43).
NoData ==
  /\ pc = "pass1"
  /\ idx > Len(doc)
  /\ x_positions = <<>>
  /\ no_data_message' = TRUE
  /\ org_data' = <<>>
  /\ pc' = "print"
  /\ idx' = 1
  /\ UNCHANGED pdf_text_vars
  /\ UNCHANGED <<doc, x_positions, position_clusters, cluster_medians,
                 level_thresholds, structured_data, print_vars>>

\* Sort and cluster the x-positions (lines 46-57).
Cluster ==
  /\ pc = "pass1"
  /\ idx > Len(doc)
  /\ x_positions # <<>>
  /\ x_positions' = SortNums(x_positions)
  /\ position_clusters' = ClustersOf(x_positions')
  /\ pc' = "thresholds"
  /\ UNCHANGED pdf_text_vars
  /\ UNCHANGED <<doc, idx, cluster_medians, level_thresholds, structured_data,
                 org_data, no_data_message, print_vars>>

\* Medians and thresholds (lines 60-69).
Thresholds ==
  /\ pc = "thresholds"
  /\ cluster_medians' = MediansOf(position_clusters)
  /\ level_thresholds' = ThresholdsOf(cluster_medians')
  /\ pc' = "pass2"
  /\ idx' = 1
  /\ UNCHANGED pdf_text_vars
  /\ UNCHANGED <<doc, x_positions, position_clusters, structured_data,
                 org_data, no_data_message, print_vars>>

\* Second pass, one span (lines 81-109); an exception leaves the function.
Pass2Step ==
  /\ pc = "pass2"
  /\ idx <= Len(doc)
  /\ LET m == MatchSpan(doc[idx])
         level == LevelOf(level_thresholds, doc[idx].x)
     IN  IF ~m.ok
         THEN /\ idx' = idx + 1
              /\ UNCHANGED <<pc, structured_data>>
         ELSE IF level = "ValueError"
         THEN /\ pc' = "raised"
              /\ UNCHANGED <<idx, structured_data>>
         ELSE /\ structured_data' =
                   Append(structured_data,
                          [level |-> level, code |-> m.code,
                           description |-> m.description,
                           x_position |-> doc[idx].x, page |-> doc[idx].page])
              /\ idx' = idx + 1
              /\ pc' = pc
  /\ UNCHANGED pdf_text_vars
  /\ UNCHANGED <<doc, x_positions, position_clusters, cluster_medians,
                 level_thresholds, org_data, no_data_message, print_vars>>

\* The final sort and the return (lines 115-117).
FinalSort ==
  /\ pc = "pass2"
  /\ idx > Len(doc)
  /\ structured_data' = SortRecs(structured_data)
  /\ org_data' = structured_data'
  /\ pc' = "print"
  /\ idx' = 1
  /\ UNCHANGED pdf_text_vars
  /\ UNCHANGED <<doc, x_positions, position_clusters, cluster_medians,
                 level_thresholds, no_data_message, print_vars>>

(***************************************************************************)
(* print_hierarchy(org_data), one item (lines 130-148).                    *)
(***************************************************************************)
AgencyAfter(level, code, cur) == IF level = "A" THEN code ELSE cur

DeptAfter(level, code, cur) ==
  IF level = "A" THEN None
  ELSE IF level = "1" THEN code
  ELSE cur

\* mutant: a department does not reset the sub-department
SubdeptAfterNoReset(level, code, cur) ==
  IF level = "A" THEN None
  ELSE IF level = "2" THEN code
  ELSE cur

SubdeptAfter(level, code, cur) ==
  IF level \in {"A", "1"} THEN None
  ELSE IF level = "2" THEN code
  ELSE cur

PrintStep ==
  /\ pc = "print"
  /\ idx <= Len(org_data)
  /\ LET level == org_data[idx].level
         code == org_data[idx].code
     IN  /\ current_agency' = AgencyAfter(level, code, current_agency)
         /\ current_dept' = DeptAfter(level, code, current_dept)
         /\ current_subdept' = SubdeptAfter(level, code, current_subdept)
         /\ printed' = IF level \in {"A", "1", "2", "3"} THEN printed + 1
                       ELSE printed
  /\ idx' = idx + 1
  /\ UNCHANGED pdf_text_vars
  /\ UNCHANGED <<doc, pc, extract_vars>>

Next ==
  \/ Pass1Step
  \/ NoData
  \/ Cluster
  \/ Thresholds
  \/ Pass2Step
  \/ FinalSort
  \/ PrintStep

Spec == Init /\ [][Next]_vars

SpecWide == InitWide /\ [][Next]_vars

NextLabel ==
  \/ Pass2Step
  \/ FinalSort
  \/ PrintStep

SpecLabel == InitLabel /\ [][NextLabel]_vars

(***************************************************************************)
(* extract_pdf_text.py: the batch loop of main.                            *)
(*                                                                         *)
(* A file of the batch is its base name and what happens when it is        *)
(* extracted: "saved" (the text is extracted and written), "no_text"       *)
(* (extract_text_with_layout returns None), "save_failed" (save_text_file  *)
(* returns False), "caught" (an exception inside extract_text_from_pdf,    *)
(* caught there), "raised" (an exception that reaches the loop of main).   *)
(***************************************************************************)
Outcomes == {"saved", "no_text", "save_failed", "caught", "raised"}

\* The filtered list: distinct files, at least one (lines 459-462).
BatchFiles ==
  UNION {{[k \in 1..n |-> [name |-> k, outcome |-> o[k]]] :
            o \in [1..n -> Outcomes]} : n \in 1..MaxDocs}

\* extract_text_from_pdf (lines 402-431): True only when the text was
\* extracted and saved.
ExtractTextFromPdfIgnoringSave(f) ==
  IF f.outcome = "caught" THEN FALSE
  ELSE IF f.outcome = "no_text" THEN FALSE
  ELSE TRUE

ExtractTextFromPdf(f) ==
  IF f.outcome = "caught" THEN FALSE
  ELSE IF f.outcome = "no_text" THEN FALSE
  ELSE IF f.outcome = "saved" THEN TRUE
  ELSE FALSE

InitBatch ==
  /\ CodesIdle
  /\ tpc = "batch"
  /\ filtered_pdfs \in BatchFiles
  /\ file_idx = 1
  /\ success_count = 0
  /\ verified_count = 0
  /\ failed_files = <<>>
  /\ calls = <<>>
  /\ LayoutIdle
  /\ FilePageIdle

\* One iteration of the loop over filtered_pdfs (lines 471-497).
ProcessFile ==
  /\ tpc = "batch"
  /\ file_idx <= Len(filtered_pdfs)
  /\ LET pdf_file == filtered_pdfs[file_idx] IN
       /\ calls' = Append(calls, pdf_file.name)
       /\ IF pdf_file.outcome = "raised"
          THEN /\ failed_files' = Append(failed_files, pdf_file.name)
               /\ UNCHANGED <<success_count, verified_count>>
          ELSE IF ExtractTextFromPdf(pdf_file)
          THEN /\ success_count' = success_count + 1
               /\ verified_count' = verified_count + 1
               /\ UNCHANGED failed_files
          ELSE /\ failed_files' = Append(failed_files, pdf_file.name)
               /\ UNCHANGED <<success_count, verified_count>>
  /\ file_idx' = file_idx + 1
  /\ UNCHANGED <<tpc, filtered_pdfs, layout_vars, file_page_vars>>
  /\ UNCHANGED codes_vars

\* The loop is over: the summary (lines 499-519).
Summary ==
  /\ tpc = "batch"
  /\ file_idx > Len(filtered_pdfs)
  /\ tpc' = "summary"
  /\ UNCHANGED <<batch_vars, layout_vars, file_page_vars>>
  /\ UNCHANGED codes_vars

NextBatch ==
  \/ ProcessFile
  \/ Summary

SpecBatch == InitBatch /\ [][NextBatch]_vars

(***************************************************************************)
(* extract_pdf_text.py: extract_text_with_layout.                          *)
(*                                                                         *)
(* A document is the list dictionary_output returns: pages with a width,   *)
(* a height and blocks; a block is its list of lines; a line has spans     *)
(* (texts) and a bbox, whose numbers are kept in tenths of a point.  The   *)
(* strings of the result are kept as records: the marker of a page, the    *)
(* entry of a line, the empty string.                                      *)
(***************************************************************************)
LineLabor == [spans |-> << <<"L">>, <<"a">> >>, bbox |-> <<3825, 3357>>]
LineNoBox == [spans |-> << <<"D">> >>, bbox |-> <<>>]
LineBlank == [spans |-> << <<" ">>, <<>> >>, bbox |-> <<100, 205>>]

SampleBlocks ==
  { <<>>,
    <<LineLabor>>,
    <<LineLabor, LineNoBox>>,
    <<LineBlank>>,
    <<LineNoBox, LineBlank>> }

PdfPages ==
  {[width |-> 612, height |-> 792, blocks |-> b] :
     b \in SeqsUpTo(SampleBlocks, MaxBlocks)}

PdfDocs == SeqsUpTo(PdfPages, MaxPdfPages)

\* ' '.join over the texts of the spans (line 179).
RECURSIVE JoinSpans(_)
JoinSpans(spans) ==
  IF spans = <<>> THEN <<>>
  ELSE IF Len(spans) = 1 THEN spans[1]
  ELSE spans[1] \o <<" ">> \o JoinSpans(Tail(spans))

\* int(float(v)) of a number given in tenths: truncation toward zero.
IntOfFloat(v) == IF v >= 0 THEN v \div 10 ELSE 0 - ((0 - v) \div 10)

\* The coordinate taken from bbox[k], 0 when the bbox is too short
\* (lines 186-191; k is the 0-based index).
Coordinate(bbox, k) == IF Len(bbox) > k THEN IntOfFloat(bbox[k + 1]) ELSE 0

\* '# === PAGE N === [size: WxH]' (line 162).
PageMarker(n, page) ==
  [kind |-> "marker", page_num |-> n, width |-> page.width,
   height |-> page.height]

\* '[block:line:x,y] text' (lines 193-194).
LineEntry(block_idx, line_idx, line) ==
  [kind |-> "line", block_idx |-> block_idx, line_idx |-> line_idx,
   x |-> Coordinate(line.bbox, 0), y |-> Coordinate(line.bbox, 1),
   text |-> JoinSpans(line.spans)]

EmptyLine == [kind |-> "empty"]

\* The locals that outlive a loop: line and line_idx are <<>> while unbound
\* and a one-element tuple once assigned; raised tells that a read of an
\* unbound local has raised.
NoLocals == [page_lines |-> <<>>, line |-> <<>>, line_idx |-> <<>>,
             raised |-> FALSE]

\* The loop over the blocks of a page (lines 168-194).  The loop over the
\* lines of a block (lines 172-174) only binds line and line_idx; the body
\* at lines 177-194 runs once per block, after that loop, on the values the
\* loop left.
RECURSIVE BlockLoop(_, _, _)
BlockLoop(blocks, b, st) ==
  IF b > Len(blocks) \/ st.raised THEN st
  ELSE LET lines == blocks[b]
           line == IF lines = <<>> THEN st.line ELSE <<lines[Len(lines)]>>
           line_idx == IF lines = <<>> THEN st.line_idx
                       ELSE <<Len(lines) - 1>>
       IN  IF line = <<>>
           THEN [st EXCEPT !.raised = TRUE]
           ELSE BlockLoop(blocks, b + 1,
                  [page_lines |->
                     IF Strip(JoinSpans(line[1].spans)) # <<>>
                     THEN Append(st.page_lines,
                                 LineEntry(b - 1, line_idx[1], line[1]))
                     ELSE st.page_lines,
                   line |-> line, line_idx |-> line_idx, raised |-> FALSE])

\* The loop over the pages (lines 154-194): the marker of every page goes to
\* processed_lines, page_lines starts again for every page.
RECURSIVE PageLoop(_, _, _, _)
PageLoop(pages, p, processed_lines, st) ==
  IF p > Len(pages) \/ st.raised
  THEN [processed_lines |-> processed_lines, st |-> st]
  ELSE PageLoop(pages, p + 1,
                Append(processed_lines, PageMarker(p, pages[p])),
                BlockLoop(pages[p].blocks, 1,
                          [st EXCEPT !.page_lines = <<>>]))

\* extract_text_with_layout (lines 143-211).  After the loop over the pages,
\* lines 197 and 200 add page_lines and one empty string; page_lines is
\* unbound when there was no page.  Any exception gives None (lines 207-211),
\* kept as ok = FALSE.
ExtractTextWithLayout(pages) ==
  LET after == PageLoop(pages, 1, <<>>, NoLocals) IN
    IF after.st.raised \/ pages = <<>>
    THEN [ok |-> FALSE, lines |-> <<>>]
    ELSE [ok |-> TRUE,
          lines |-> Append(after.processed_lines \o after.st.page_lines,
                           EmptyLine)]

InitLayout ==
  /\ CodesIdle
  /\ tpc = "layout"
  /\ BatchIdle
  /\ pdf_pages \in PdfDocs
  /\ text_lines = [ok |-> TRUE, lines |-> <<>>]
  /\ FilePageIdle

\* The call text_lines = extract_text_with_layout(pdf_path) (line 411).
ExtractLayout ==
  /\ tpc = "layout"
  /\ text_lines' = ExtractTextWithLayout(pdf_pages)
  /\ tpc' = "layout_done"
  /\ UNCHANGED <<pdf_pages, batch_vars, file_page_vars>>
  /\ UNCHANGED codes_vars

NextLayout == ExtractLayout

SpecLayout == InitLayout /\ [][NextLayout]_vars

(***************************************************************************)
(* extract_pdf_text.py: extract_text_file_page.                            *)
(*                                                                         *)
(* The text file is the list of lines content.split gives; a line is a     *)
(* tuple of characters.  The files are sections, each a marker line        *)
(* followed by lines that are not markers.                                 *)
(***************************************************************************)
\* '# === PAGE ', what startswith looks for (line 265).
MarkerPrefix ==
  <<"#", " ", "=", "=", "=", " ", "P", "A", "G", "E", " ">>

\* The rest of a marker line after the page number (line 162).
MarkerSuffix ==
  <<" ", "=", "=", "=", " ", "[", "s", "i", "z", "e", ":", " ", "6", "1",
    "2", "x", "7", "9", "2", "]">>

MarkerLine(n) == MarkerPrefix \o <<Digits[n + 1]>> \o MarkerSuffix

\* Lines of a section's body: an entry, the empty line that ends a page, and
\* a line that only resembles a marker.
EntryLine ==
  <<"[", "0", ":", "0", ":", "0", ",", "0", "]", " ", "D">>

AlmostMarker ==
  <<"#", " ", "=", "=", "=", " ", "P", "A", "G", "E">>

BodyLines == {EntryLine, <<>>, AlmostMarker}

\* '\n'.join and split again: the lines of the sections, one after another.
RECURSIVE SectionsLines(_)
SectionsLines(sections) ==
  IF sections = <<>> THEN <<>>
  ELSE Head(sections) \o SectionsLines(Tail(sections))

TextFiles ==
  UNION {{SectionsLines([k \in 1..n |-> <<MarkerLine(k)>> \o body[k]]) :
            body \in [1..n -> SeqsUpTo(BodyLines, MaxBody)]} :
         n \in 0..MaxSections}

\* str.startswith
RECURSIVE StartsWith(_, _)
StartsWith(line, prefix) ==
  IF prefix = <<>> THEN TRUE
  ELSE IF line = <<>> THEN FALSE
  ELSE Head(line) = Head(prefix) /\ StartsWith(Tail(line), Tail(prefix))

\* The loop over the lines (lines 264-274) and what follows it (lines
\* 276-278).  pages holds the very list current_page names, so a line
\* appended to current_page shows in the last element of pages.
RECURSIVE FilePageLoop(_, _, _, _, _)
FilePageLoop(lines, i, pages, current_page, n) ==
  IF i > Len(lines)
  THEN IF current_page # <<>> /\ Len(pages) = n + 1 THEN current_page
       ELSE <<>>
  ELSE LET line == lines[i] IN
       IF StartsWith(line, MarkerPrefix)
       THEN IF current_page # <<>> /\ Len(pages) = n
            THEN current_page
            ELSE FilePageLoop(lines, i + 1, Append(pages, <<line>>),
                              <<line>>, n)
       ELSE IF current_page # <<>>
            THEN FilePageLoop(lines, i + 1,
                              [pages EXCEPT ![Len(pages)] = Append(@, line)],
                              Append(current_page, line), n)
            ELSE FilePageLoop(lines, i + 1, pages, current_page, n)

\* extract_text_file_page (lines 255-278).
ExtractTextFilePage(lines, n) == FilePageLoop(lines, 1, <<>>, <<>>, n)

InitFilePage ==
  /\ CodesIdle
  /\ tpc = "file_page"
  /\ BatchIdle
  /\ LayoutIdle
  /\ text_file \in TextFiles
  /\ page_num \in 0..MaxSections
  /\ file_page = <<>>

\* The call text_page = extract_text_file_page(text_path, page_num)
\* (line 300).
ExtractFilePage ==
  /\ tpc = "file_page"
  /\ file_page' = ExtractTextFilePage(text_file, page_num)
  /\ tpc' = "file_page_done"
  /\ UNCHANGED <<text_file, page_num, batch_vars, layout_vars>>
  /\ UNCHANGED codes_vars

NextFilePage == ExtractFilePage

SpecFilePage == InitFilePage /\ [][NextFilePage]_vars

(***************************************************************************)
(* Properties.                                                             *)
(***************************************************************************)
RECURSIVE Flatten(_)
Flatten(ss) == IF ss = <<>> THEN <<>> ELSE Head(ss) \o Flatten(Tail(ss))

Occurrences(s, v) == Cardinality({k \in DOMAIN s : s[k] = v})

\* The texts of the model that are coded lines, with the code and the
\* description each is expected to give.
CodedTexts == {T0100, T1001, T0200, T0200nl}

ExpectedCode(text) ==
  IF text = T0100 THEN <<"0", "1", "0", "0">>
  ELSE IF text = T1001 THEN <<"1", "0", "0", "1">>
  ELSE <<"0", "2", "0", "0">>

ExpectedDescription(text) ==
  IF text = T0100 THEN <<"D", "e", "p", "t", " ", "A">>
  ELSE IF text = T1001 THEN <<"U", "n", "i", "t", " ", "A", "1">>
  ELSE IF text = T0200 THEN <<"D", "e", "p", "t", " ", "B">>
  ELSE <<"D", "i", "v">>

CodedSpans == {k \in DOMAIN doc : doc[k].text \in CodedTexts}

Clustered == pc \in {"thresholds", "pass2", "print"} /\ x_positions # <<>>

\* C1: once the x-positions are clustered, the clusters are non-empty and,
\* laid end to end, are the coordinates of the coded spans in ascending order,
\* every occurrence once; two neighbours in a cluster differ by at most 15, and
\* the last of a cluster and the first of the next by more than 15.  These
\* conditions fix the clusters from the multiset of coordinates alone, so the
\* clusters are the same for every order of collection.
C1_ClustersPartition ==
  Clustered =>
    LET flat == Flatten(position_clusters)
    IN  /\ \A c \in DOMAIN position_clusters : position_clusters[c] # <<>>
        /\ \A k \in 1..(Len(flat) - 1) : flat[k] <= flat[k + 1]
        /\ \A v \in WideXs :
             Occurrences(flat, v) =
               Cardinality({k \in CodedSpans : doc[k].x = v})
        /\ Len(flat) = Cardinality(CodedSpans)
        /\ \A c \in DOMAIN position_clusters :
             \A k \in 1..(Len(position_clusters[c]) - 1) :
               position_clusters[c][k + 1] - position_clusters[c][k] <= 15
        /\ \A c \in 1..(Len(position_clusters) - 1) :
             position_clusters[c + 1][1]
               - position_clusters[c][Len(position_clusters[c])] > 15

\* A document collected out of order, with a repeated coordinate, a gap of
\* exactly 15 inside a cluster and three clusters.
C1_Witness ==
  /\ pc = "thresholds"
  /\ Len(position_clusters) = 3
  /\ \E k \in 1..(Len(doc) - 1) : doc[k].x > doc[k + 1].x
  /\ \E c \in DOMAIN position_clusters :
       /\ Len(position_clusters[c]) = 3
       /\ position_clusters[c][1] = position_clusters[c][2]
       /\ position_clusters[c][3] - position_clusters[c][2] = 15

\* The median as the claim defines it, in half points, of an ascending cluster.
MiddleOf(c) ==
  LET n == Len(c)
  IN  IF n % 2 = 1 THEN 2 * c[(n + 1) \div 2] ELSE c[n \div 2] + c[(n \div 2) + 1]

\* C2: with k clusters the threshold mapping has min(k, 4) entries; the i-th
\* entry carries the i-th label of A, 1, 2, 3 and the interval
\* [m - 10, m + 10] around the i-th smallest cluster median m; a fifth cluster
\* has no entry.
C2_Thresholds ==
  (pc \in {"pass2", "print"} /\ x_positions # <<>>) =>
    LET k == Len(position_clusters)
        medians == [c \in 1..k |-> MiddleOf(position_clusters[c])]
    IN  /\ Len(level_thresholds) = (IF k < 4 THEN k ELSE 4)
        /\ \A i \in DOMAIN level_thresholds :
             /\ level_thresholds[i].lvl = <<"A", "1", "2", "3">>[i]
             /\ \E c \in 1..k :
                  /\ level_thresholds[i].min_pos = medians[c] - 20
                  /\ level_thresholds[i].max_pos = medians[c] + 20
                  /\ Cardinality({d \in 1..k : medians[d] < medians[c]}) = i - 1

\* Five clusters, collected out of order: the fifth gets no entry.
C2_Witness ==
  /\ pc = "pass2"
  /\ Len(position_clusters) = 5
  /\ Len(level_thresholds) = 4
  /\ \E k \in 1..(Len(doc) - 1) : doc[k].x > doc[k + 1].x

\* The entries of the mapping whose interval contains x.
Containing(x) ==
  {k \in DOMAIN level_thresholds :
     level_thresholds[k].min_pos <= 2 * x /\ 2 * x <= level_thresholds[k].max_pos}

\* C3: a span whose x lies in the intervals of two or more labels gets the
\* one of them that comes first in A, 1, 2, 3.
C3_FirstLabelWins ==
  \A r \in DOMAIN structured_data :
    LET inside == Containing(structured_data[r].x_position)
    IN  Cardinality(inside) >= 2 =>
          \E k \in inside :
            /\ \A j \in inside : k <= j
            /\ structured_data[r].level = <<"A", "1", "2", "3">>[k]

\* Twice the distance from x to the middle of entry k, in half points.
OffCentre(k, x) ==
  LET d == 4 * x - (level_thresholds[k].min_pos + level_thresholds[k].max_pos)
  IN  IF d < 0 THEN 0 - d ELSE d

\* A labeled span inside two intervals and nearer to the middle of the later.
C3_Witness ==
  /\ structured_data # <<>>
  /\ LET x == structured_data[1].x_position
     IN  \E k \in Containing(x) : \E j \in Containing(x) :
           k < j /\ OffCentre(j, x) < OffCentre(k, x)

\* The distance from x to the nearer endpoint of entry k, in half points.
ToEndpoint(k, x) ==
  LET lo == level_thresholds[k].min_pos - 2 * x
      hi == 2 * x - level_thresholds[k].max_pos
  IN  IF lo >= 0 THEN lo
      ELSE IF hi >= 0 THEN hi
      ELSE IF 0 - lo <= 0 - hi THEN 0 - lo ELSE 0 - hi

\* C4: with at least one threshold, a span whose x lies in no interval gets
\* a label none of whose rivals has an endpoint nearer to x, and never
\* "Unknown".
C4_FallbackNearest ==
  \A r \in DOMAIN structured_data :
    LET x == structured_data[r].x_position
    IN  (level_thresholds # <<>> /\ Containing(x) = {}) =>
          /\ structured_data[r].level # "Unknown"
          /\ \E k \in DOMAIN level_thresholds :
               /\ level_thresholds[k].lvl = structured_data[r].level
               /\ \A j \in DOMAIN level_thresholds :
                    ToEndpoint(k, x) <= ToEndpoint(j, x)

\* A labeled span more than 30 points from every endpoint of four intervals.
C4_Witness ==
  /\ structured_data # <<>>
  /\ Len(level_thresholds) = 4
  /\ Containing(structured_data[1].x_position) = {}
  /\ \A j \in DOMAIN level_thresholds :
       ToEndpoint(j, structured_data[1].x_position) > 60
  /\ structured_data[1].level \in {"A", "1", "2", "3"}

CodeNumber(code) ==
  LET digit(c) == (CHOOSE k \in 1..10 : Digits[k] = c) - 1
  IN  1000 * digit(code[1]) + 100 * digit(code[2]) + 10 * digit(code[3])
        + digit(code[4])

\* (r.page, r.code) <= (s.page, s.code)
KeyAtMost(r, s) ==
  \/ r.page < s.page
  \/ r.page = s.page /\ CodeNumber(r.code) <= CodeNumber(s.code)

\* The records of s with the page and the code of r, in their order in s.
WithKeyOf(s, r) ==
  LET same(q) == q.page = r.page /\ q.code = r.code
  IN  SelectSeq(s, same)

\* C6: the returned list is in ascending order of (page, code), and the
\* final sort leaves the records of equal page and code in the order in which
\* the traversal appended them (so the result is the one arrangement of the
\* records that is both, the same on every run).
C6_SortedStable ==
  /\ [](pc = "print" =>
          \A k \in 1..(Len(org_data) - 1) : KeyAtMost(org_data[k], org_data[k + 1]))
  /\ [][(pc = "pass2" /\ pc' = "print") =>
          /\ Len(structured_data') = Len(structured_data)
          /\ org_data' = structured_data'
          /\ \A k \in DOMAIN structured_data :
               WithKeyOf(structured_data', structured_data[k])
                 = WithKeyOf(structured_data, structured_data[k])]_vars

\* A returned list of three records, two of them with the same page and code
\* and different x, from a document that lists a larger code first.
C6_Witness ==
  /\ pc = "print"
  /\ Len(org_data) = 3
  /\ \E k \in 1..2 :
       /\ org_data[k].page = org_data[k + 1].page
       /\ org_data[k].code = org_data[k + 1].code
       /\ org_data[k].x_position > org_data[k + 1].x_position
  /\ doc[1].text = T1001
  /\ doc[1].page = doc[3].page

Doc7 ==
  << [text |-> T0100, x |-> 40, page |-> 1],
     [text |-> T1001, x |-> 130, page |-> 1],
     [text |-> T0200, x |-> 42, page |-> 2] >>

R0100 ==
  [level |-> "A", code |-> <<"0", "1", "0", "0">>,
   description |-> <<"D", "e", "p", "t", " ", "A">>, x_position |-> 40, page |-> 1]

R1001 ==
  [level |-> "1", code |-> <<"1", "0", "0", "1">>,
   description |-> <<"U", "n", "i", "t", " ", "A", "1">>, x_position |-> 130,
   page |-> 1]

R0200 ==
  [level |-> "A", code |-> <<"0", "2", "0", "0">>,
   description |-> <<"D", "e", "p", "t", " ", "B">>, x_position |-> 42, page |-> 2]

\* The scenario up to the final sort: clusters [40, 42] and [130], medians 41
\* and 130, thresholds A: [31, 51] and 1: [120, 140] (here in half points),
\* labels A, 1, A in traversal order.
Doc7Stages ==
  /\ pc \in {"thresholds", "pass2", "print"} =>
       position_clusters = << <<40, 42>>, <<130>> >>
  /\ pc \in {"pass2", "print"} =>
       /\ cluster_medians = <<82, 260>>
       /\ level_thresholds = << [lvl |-> "A", min_pos |-> 62, max_pos |-> 102],
                                [lvl |-> "1", min_pos |-> 240, max_pos |-> 280] >>
  /\ (pc = "pass2" /\ idx > Len(doc)) => structured_data = <<R0100, R1001, R0200>>

\* C7 as claimed: the scenario ends with the list 0100 (page 1), 0200
\* (page 2), 1001 (page 1).
C7_ClaimedOrder ==
  doc = Doc7 => Doc7Stages /\ (pc = "print" => org_data = <<R0100, R0200, R1001>>)

\* C7 as amended: the scenario ends with the list 0100 (A, page 1), 1001
\* (1, page 1), 0200 (A, page 2), which is its order by (page, code).
C7_Scenario ==
  doc = Doc7 => Doc7Stages /\ (pc = "print" => org_data = <<R0100, R1001, R0200>>)

C7_Witness == doc = Doc7 /\ pc = "print" /\ idx > Len(org_data) /\ printed = 3

\* C8: a document none of whose spans is a coded line returns the empty list
\* with the message, raises nothing and never clusters, derives thresholds or
\* labels.
C8_NoSpans ==
  CodedSpans = {} =>
    /\ pc \in {"pass1", "print"}
    /\ x_positions = <<>>
    /\ position_clusters = <<>>
    /\ cluster_medians = <<>>
    /\ level_thresholds = <<>>
    /\ structured_data = <<>>
    /\ pc = "print" => (org_data = <<>> /\ no_data_message)

\* A document of spans that are no coded lines, returned from.
C8_Witness ==
  /\ CodedSpans = {}
  /\ \E k \in DOMAIN doc : doc[k].text = TFiveDigits
  /\ \E k \in DOMAIN doc : doc[k].text = TCodeOnly
  /\ pc = "print"
  /\ no_data_message

\* What a record must carry of the coded span k.
Carries(r, k) ==
  /\ r.code = ExpectedCode(doc[k].text)
  /\ r.description = ExpectedDescription(doc[k].text)
  /\ r.x_position = doc[k].x
  /\ r.page = doc[k].page

\* C9: the returned list holds one record per coded span and none for the
\* other spans (as many records carry a code, description, x and page as coded
\* spans have them), each with a level of A, 1, 2, 3; a record appended by the
\* second pass is never changed, the final sort only reorders the records, and
\* nothing changes them afterwards.
C9_OneRecordPerSpan ==
  /\ [](/\ pc = "pass2" =>
             Len(structured_data) = Cardinality({k \in CodedSpans : k < idx})
        /\ pc = "print" =>
             /\ Len(org_data) = Cardinality(CodedSpans)
             /\ \A k \in CodedSpans :
                  Cardinality({r \in DOMAIN org_data : Carries(org_data[r], k)})
                    = Cardinality({j \in CodedSpans : Carries(
                        [code |-> ExpectedCode(doc[j].text),
                         description |-> ExpectedDescription(doc[j].text),
                         x_position |-> doc[j].x, page |-> doc[j].page], k)})
             /\ \A r \in DOMAIN org_data :
                  org_data[r].level \in {"A", "1", "2", "3"})
  /\ [][/\ (pc = "pass2" /\ pc' = "pass2") =>
             /\ Len(structured_data') >= Len(structured_data)
             /\ \A k \in DOMAIN structured_data :
                  structured_data'[k] = structured_data[k]
        /\ (pc = "pass2" /\ pc' = "print") =>
             /\ Len(structured_data') = Len(structured_data)
             /\ \A k \in DOMAIN structured_data :
                  Occurrences(structured_data', structured_data[k])
                    = Occurrences(structured_data, structured_data[k])
        /\ pc = "print" =>
             (structured_data' = structured_data /\ org_data' = org_data)]_vars

\* A returned list of two records from a document of three spans, one of
\* them no coded line and one a coded line inside whitespace.
C9_Witness ==
  /\ pc = "print"
  /\ Len(doc) = 3
  /\ Len(org_data) = 2
  /\ \E k \in DOMAIN doc : doc[k].text = TFiveDigits
  /\ \E k \in DOMAIN doc : doc[k].text = T0200
  /\ \E k \in DOMAIN doc : doc[k].text = T0200nl

\* C10: a step of print_hierarchy on an item of level A leaves current_dept
\* and current_subdept unset; on an item of level 1 it leaves current_subdept
\* unset and current_agency as it was; and no step changes a record.
C10_PrintResets ==
  [][(pc = "print" /\ idx' = idx + 1) =>
       /\ org_data[idx].level = "A" =>
            (current_dept' = <<>> /\ current_subdept' = <<>>)
       /\ org_data[idx].level = "1" =>
            (current_subdept' = <<>> /\ current_agency' = current_agency)
       /\ org_data' = org_data
       /\ structured_data' = structured_data]_vars

\* After the items A, 2, 1: the agency is still the first item's, the
\* department is the third's and the sub-department set by the second is unset.
C10_Witness ==
  /\ pc = "print"
  /\ idx = 4
  /\ org_data[1].level = "A"
  /\ org_data[2].level = "2"
  /\ org_data[3].level = "1"
  /\ current_agency = org_data[1].code
  /\ current_dept = org_data[3].code
  /\ current_subdept = <<>>

\* The cluster that holds the coordinate x.
ClusterOf(x) ==
  CHOOSE c \in DOMAIN position_clusters :
    \E k \in DOMAIN position_clusters[c] : position_clusters[c][k] = x

\* Twice the distance from x to the median of its cluster, in half points.
OffMedian(x) ==
  LET d == 2 * x - MiddleOf(position_clusters[ClusterOf(x)])
  IN  IF d < 0 THEN 0 - d ELSE d

\* C14 as claimed: a span of the i-th cluster, i <= 4, has the i-th label of
\* A, 1, 2, 3.
C14_OwnClusterLabel ==
  \A r \in DOMAIN structured_data :
    LET c == ClusterOf(structured_data[r].x_position)
    IN  c <= 4 => structured_data[r].level = <<"A", "1", "2", "3">>[c]

\* C14 as amended: a span of the i-th cluster, i <= 4, that lies within 15
\* units of the median of its cluster has the i-th label of A, 1, 2, 3 (by
\* inclusion within 10 units, by the fallback beyond).
C14_NearMedianOwnLabel ==
  \A r \in DOMAIN structured_data :
    LET x == structured_data[r].x_position
        c == ClusterOf(x)
    IN  (c <= 4 /\ OffMedian(x) <= 30) =>
          structured_data[r].level = <<"A", "1", "2", "3">>[c]

\* A returned list of two levels or more with a span of the first cluster 15
\* units from its median, labeled A by the fallback.
C14_Witness ==
  /\ pc = "print"
  /\ Len(level_thresholds) >= 2
  /\ \E r \in DOMAIN org_data :
       /\ ClusterOf(org_data[r].x_position) = 1
       /\ OffMedian(org_data[r].x_position) = 30
       /\ Containing(org_data[r].x_position) = {}
       /\ org_data[r].level = "A"

\* The place of a level in A, 1, 2, 3.
Rank(level) == CHOOSE k \in 1..4 : <<"A", "1", "2", "3">>[k] = level

\* C15: of two records of a document, the one further left has no later
\* level in A, 1, 2, 3 than the other.
C15_Monotone ==
  \A r \in DOMAIN structured_data : \A s \in DOMAIN structured_data :
    structured_data[r].x_position <= structured_data[s].x_position =>
      Rank(structured_data[r].level) <= Rank(structured_data[s].level)

\* A returned list with the levels A and 1, in which a span has its level by
\* the fallback and that level is not its own cluster's.
C15_Witness ==
  /\ pc = "print"
  /\ \E r \in DOMAIN org_data : org_data[r].level = "A"
  /\ \E s \in DOMAIN org_data :
       /\ Containing(org_data[s].x_position) = {}
       /\ org_data[s].level = "1"
       /\ ClusterOf(org_data[s].x_position) = 1

\* The files among the first n of the batch whose extraction fails, in order.
RECURSIVE FailedAmong(_)
FailedAmong(n) ==
  IF n = 0 THEN <<>>
  ELSE IF filtered_pdfs[n].outcome = "saved" THEN FailedAmong(n - 1)
  ELSE Append(FailedAmong(n - 1), filtered_pdfs[n].name)

EntriesOf(page) ==
  Flatten([b \in 1..Len(page.blocks) |->
    Flatten([l \in 1..Len(page.blocks[b]) |->
      LET ln == page.blocks[b][l] IN
        IF \E k \in 1..Len(ln.spans) : \E c \in 1..Len(ln.spans[k]) :
             ~IsSpace(ln.spans[k][c])
        THEN <<[kind |-> "line", block_idx |-> b - 1, line_idx |-> l - 1,
                x |-> IF Len(ln.bbox) >= 1 THEN ln.bbox[1] \div 10 ELSE 0,
                y |-> IF Len(ln.bbox) >= 2 THEN ln.bbox[2] \div 10 ELSE 0,
                text |-> JoinSpans(ln.spans)]>>
        ELSE <<>>])])

\* C12 The list extract_text_with_layout returns keeps the page boundaries:
\* for every page, in page order, the page's marker, then one entry for
\* every non-blank line of every block of that page, then an empty line.
C12_PageBoundaries ==
  tpc = "layout_done" =>
    /\ text_lines.ok
    /\ text_lines.lines =
         Flatten([p \in 1..Len(pdf_pages) |->
           <<[kind |-> "marker", page_num |-> p,
              width |-> pdf_pages[p].width, height |-> pdf_pages[p].height]>>
           \o EntriesOf(pdf_pages[p])
           \o <<[kind |-> "empty"]>>])

\* The positions of the marker lines of the text file, and the section that
\* starts at a marker: the lines from it up to the next marker or the end.
MarkerAt ==
  {i \in DOMAIN text_file :
     /\ Len(text_file[i]) >= Len(MarkerPrefix)
     /\ SubSeq(text_file[i], 1, Len(MarkerPrefix)) = MarkerPrefix}

SectionFrom(i) ==
  LET later == {j \in MarkerAt : j > i}
      last == IF later = {} THEN Len(text_file)
              ELSE (CHOOSE j \in later : \A k \in later : j <= k) - 1
  IN  SubSeq(text_file, i, last)

\* C13 extract_text_file_page(file, n) returns the section with 0-based
\* index n, beginning with its own marker line, for n from 0 to the number
\* of sections minus 1, and an empty list for any other n.
C13_SectionByIndex ==
  tpc = "file_page_done" =>
    file_page =
      IF page_num < Cardinality(MarkerAt)
      THEN SectionFrom(CHOOSE i \in MarkerAt :
                         Cardinality({j \in MarkerAt : j < i}) = page_num)
      ELSE <<>>

====
